---- MODULE Spec2Model ----
(***************************************************************************)
(* Trend Analysis & Prediction Engine of ContenAI.                         *)
(*                                                                         *)
(* TrendsPredictionService.predictTrends and TrendsService                 *)
(* .getTrendsForNiche are modelled as pipelines that advance one stage per *)
(* step (a stage ends at the await that hands control to the next one).    *)
(* External capabilities (search-interest source, feed source, text        *)
(* generation, classification) answer nondeterministically from small      *)
(* sets of outcomes.  Keywords are the numbers 1..n, 0 is a keyword that   *)
(* is not part of the request.  Timestamps are day offsets from the call.  *)
(* Non-integer numbers are exact rationals <<numerator, denominator>>.     *)
(***************************************************************************)
EXTENDS Integers, Sequences, FiniteSets, TLC

VARIABLES
    op,                 \* entry point this behaviour runs
    pc,                 \* position inside the entry point
    keywords,           \* request: keyword list
    historicalData,     \* request: keyword -> series of values (partial map)
    recentArticles,     \* request: number of recent article titles
    keywordPredictions, \* predictTrends: keyword -> forecast values
    contentInsights,    \* predictTrends: text of the content analysis
    combinedPrediction, \* predictTrends: list of PredictionDetail
    interventionPoints, \* predictTrends: list of InterventionPoint
    nextActions,        \* predictTrends: list of suggested actions
    threw,              \* predictTrends: a stage threw into the outer catch
    variant,            \* TrendsService: "basic" or "extended"
    trendsData,         \* getTrendsForNiche: search-interest data
    redditData,         \* getTrendsForNiche: number of Reddit posts
    articles,           \* getTrendsForNiche: number of feed articles
    failures,           \* getTrendsForNiche: sources whose fetch failed (logged)
    trendingKeywords,   \* getTrendsForNiche: processedTrends.trendingKeywords
    emergingKeywords,   \* getTrendsForNiche: number of emerging keywords
    aiAnalysis,         \* getTrendsForNiche: generated opportunity text
    classification,     \* rankOpportunities: what classifyTrends returned
    opportunities,      \* getTrendsForNiche: list of TrendOpportunity
    sites,              \* analyzeCompetitors: what each requested URL serves
    competitorData,     \* analyzeCompetitors: list of entries built so far
    calls,              \* external calls launched by the request, with status
    silent,             \* the external call that never responds, if any
    article,            \* getRecentArticles: index of the article in the loop
    requests,           \* TrendsPredictionChart: request of each props value
    loading,            \* TrendsPredictionChart: state loading
    predictionData,     \* TrendsPredictionChart: state predictionData
    chartData,          \* TrendsPredictionChart: state chartData
    result              \* value handed to the caller

predictVars == <<keywordPredictions, contentInsights, combinedPrediction,
                 interventionPoints, nextActions, threw>>
trendsVars == <<variant, trendsData, redditData, articles, failures,
                trendingKeywords, emergingKeywords, aiAnalysis, classification,
                opportunities>>
requestVars == <<op, keywords, historicalData, recentArticles>>
competitorVars == <<sites, competitorData>>
callVars == <<calls, silent, article>>
chartVars == <<requests, loading, predictionData, chartData>>
entryVars == <<competitorVars, callVars, chartVars>>
vars == <<op, pc, keywords, historicalData, recentArticles, keywordPredictions,
          contentInsights, combinedPrediction, interventionPoints, nextActions,
          threw, variant, trendsData, redditData, articles, failures,
          trendingKeywords, emergingKeywords, aiAnalysis, classification,
          opportunities, sites, competitorData, calls, silent, article, requests,
          loading, predictionData, chartData, result>>

-----------------------------------------------------------------------------
(* Bounds of the model *)

MaxKeywords == 3
MaxPoints == 4
MaxJsonItems == 2

(* Sample interest values of a historical series, all inside [0,100] *)
ValueSamples == {0, 30, 70, 100}

-----------------------------------------------------------------------------
(* Arithmetic helpers: JavaScript numbers as exact rationals *)

Abs(x) == IF x < 0 THEN -x ELSE x

RECURSIVE GCD(_, _)
GCD(a, b) == IF b = 0 THEN a ELSE GCD(b, a % b)

RNorm(r) ==
    LET g == GCD(Abs(r[1]), Abs(r[2]))
    IN  IF g = 0 THEN r ELSE <<r[1] \div g, r[2] \div g>>

RAdd(a, b) == RNorm(<<a[1] * b[2] + b[1] * a[2], a[2] * b[2]>>)
RSub(a, b) == RNorm(<<a[1] * b[2] - b[1] * a[2], a[2] * b[2]>>)
RLeq(a, b) == a[1] * b[2] <= b[1] * a[2]
RLess(a, b) == a[1] * b[2] < b[1] * a[2]
RInt(n) == <<n, 1>>

MathMin(a, b) == IF a <= b THEN a ELSE b
MathMax(a, b) == IF a >= b THEN a ELSE b
RMin(a, b) == IF RLeq(a, b) THEN a ELSE b
RMax(a, b) == IF RLeq(b, a) THEN a ELSE b

(* Math.round of the rational p/q, q > 0: the nearest integer, halves up *)
MathRound(p, q) == (2 * p + q) \div (2 * q)

RECURSIVE SumSeq(_)
SumSeq(s) == IF s = <<>> THEN 0 ELSE Head(s) + SumSeq(Tail(s))

(* s.slice(from) with a 0-based start index *)
SliceFrom(s, from) == IF from >= Len(s) THEN <<>> ELSE SubSeq(s, from + 1, Len(s))
(* s.slice(0, k) *)
SliceTo(s, k) == SubSeq(s, 1, MathMin(k, Len(s)))

-----------------------------------------------------------------------------
(* Forecaster *)

DefaultForecast == <<50, 55, 60>>

(* Unclamped projection numerator/denominator of the least-squares line    *)
(* through (index, value), at index lastX + i                              *)
RegressionProjection(data, i) ==
    LET n     == Len(data)
        sumX  == SumSeq([k \in 1..n |-> k - 1])
        sumY  == SumSeq(data)
        sumXY == SumSeq([k \in 1..n |-> (k - 1) * data[k]])
        sumXX == SumSeq([k \in 1..n |-> (k - 1) * (k - 1)])
        num   == n * sumXY - sumX * sumY
        den   == n * sumXX - sumX * sumX
        x     == (n - 1) + i
    IN  <<num * (n * x - sumX) + sumY * den, den * n>>

ClampedRound(pq) ==
    IF pq[1] < 0 THEN 0
    ELSE IF pq[1] > 100 * pq[2] THEN 100
    ELSE MathRound(pq[1], pq[2])

UnclampedRound(pq) == MathRound(pq[1], pq[2])

NormalizeForecast(pq) == ClampedRound(pq)

linearRegressionReversed(data) ==
    IF Len(data) < 2 THEN DefaultForecast
    ELSE [i \in 1..3 |-> NormalizeForecast(RegressionProjection(data, 4 - i))]

linearRegression(data) ==
    IF Len(data) < 2 THEN DefaultForecast
    ELSE [i \in 1..3 |-> NormalizeForecast(RegressionProjection(data, i))]

HistoryOf(hist, keyword) ==
    IF keyword \in DOMAIN hist THEN hist[keyword] ELSE <<>>

ForecastFromTwoPoints(data) ==
    IF Len(data) >= 2 THEN linearRegression(data) ELSE DefaultForecast

ForecastKeyword(data) ==
    IF Len(data) >= 3 THEN linearRegression(data) ELSE DefaultForecast

analyzeHistoricalTrends(kws, hist) ==
    [k \in {kws[i] : i \in 1..Len(kws)} |-> ForecastKeyword(HistoryOf(hist, k))]

-----------------------------------------------------------------------------
(* Text-generation capability as seen by its callers.                      *)
(* CohereService/DeepseekService.generateCompletion return the content     *)
(* field of the response unvalidated, or the fixed failure message when    *)
(* the request fails; they never throw.                                    *)
(*   "json_array"  the text is a JSON array (its items are in .items)      *)
(*   "json_other"  the text is valid JSON that is not an array             *)
(*   "text"        free text, not valid JSON                               *)
(*   "failmsg"     the fixed failure message                               *)
(*   "undefined"   the response carries no content field                   *)

GenerationKinds == {"json_array", "json_other", "text", "failmsg", "undefined"}

JsonParseThrows(kind) == kind \in {"text", "failmsg", "undefined"}

(* Items the generated prediction array may hold.  keyword 0 is not a      *)
(* request keyword; isArray tells whether predictedValues is an array.     *)
PredictionItemSamples ==
    { [keyword |-> 1, currentValue |-> 45, isArray |-> TRUE,  predictedValues |-> <<50, 55, 60>>],
      [keyword |-> 0, currentValue |-> 150, isArray |-> TRUE,  predictedValues |-> <<>>],
      [keyword |-> 2, currentValue |-> 80, isArray |-> FALSE, predictedValues |-> <<>>],
      [keyword |-> 1, currentValue |-> 20, isArray |-> TRUE,  predictedValues |-> <<120>>] }

SeqsUpTo(S, n) == UNION {[1..k -> S] : k \in 0..n}

-----------------------------------------------------------------------------
(* Opportunity Synthesizer, prediction narrative *)

ParsedPredictionDetail(item) ==
    [keyword         |-> item.keyword,
     currentValue    |-> item.currentValue,
     predictedValues |-> IF item.isArray THEN item.predictedValues ELSE <<50, 55, 60>>,
     explanation     |-> "generated"]

(* predictions.slice(1): the forecast without its first value *)
RegressionPredictedValues(predictions) == SliceFrom(predictions, 1)

DefaultPredictionDetail(keyword, kwPredictions, why) ==
    LET predictions == IF keyword \in DOMAIN kwPredictions
                       THEN kwPredictions[keyword] ELSE <<50, 55, 60>>
    IN  [keyword         |-> keyword,
         currentValue    |-> IF predictions[1] # 0 THEN predictions[1] ELSE 50,
         predictedValues |-> RegressionPredictedValues(predictions),
         explanation     |-> why]

generateCombinedPrediction(kws, kwPredictions, response) ==
    IF response.kind = "json_array"
    THEN [i \in 1..Len(response.items) |-> ParsedPredictionDetail(response.items[i])]
    ELSE [i \in 1..Len(kws) |-> DefaultPredictionDetail(kws[i], kwPredictions, "historical")]

-----------------------------------------------------------------------------
(* Intervention Scheduler *)

LastPredicted(p) == p.predictedValues[Len(p.predictedValues)]

IsGrowing(p) == Len(p.predictedValues) > 0 /\ LastPredicted(p) > p.currentValue

RECURSIVE SelectGrowing(_)
SelectGrowing(predictions) ==
    IF predictions = <<>> THEN <<>>
    ELSE IF IsGrowing(Head(predictions))
         THEN <<Head(predictions)>> \o SelectGrowing(Tail(predictions))
         ELSE SelectGrowing(Tail(predictions))

(* The comparator of the sort reads the unbound name p: it throws a        *)
(* ReferenceError as soon as it is called, i.e. when two or more elements  *)
(* are sorted.                                                             *)
GrowthComparatorThrows(growing) == Len(growing) >= 2

KeywordsOf(predictions) == [i \in 1..Len(predictions) |-> predictions[i].keyword]

InterventionSchedule(growingKeywords) ==
    IF Len(growingKeywords) > 0
    THEN << [timestamp |-> 7,  action |-> "conversion", keywords |-> SliceTo(growingKeywords, 2)],
            [timestamp |-> 14, action |-> "campaign",   keywords |-> SliceTo(growingKeywords, 3)],
            [timestamp |-> 30, action |-> "products",   keywords |-> growingKeywords] >>
    ELSE <<>>

calculateInterventionPoints(predictions) ==
    InterventionSchedule(KeywordsOf(SelectGrowing(predictions)))

-----------------------------------------------------------------------------
(* Confidence Estimator *)

(* mean squared deviation from the mean, as a rational *)
calculateVariance(values) ==
    LET n == Len(values)
        s == SumSeq(values)
    IN  RNorm(<<SumSeq([i \in 1..n |-> (n * values[i] - s) * (n * values[i] - s)]), n * n * n>>)

NoVolatilityPenalty(kwPredictions, ks) == RInt(0)

RECURSIVE VolatilityPenalty(_, _)
VolatilityPenalty(kwPredictions, ks) ==
    IF ks = {} THEN RInt(0)
    ELSE LET k      == CHOOSE x \in ks : TRUE
             values == kwPredictions[k]
             v      == calculateVariance(values)
             rest   == VolatilityPenalty(kwPredictions, ks \ {k})
         IN  IF Len(values) > 1 THEN RAdd(rest, RNorm(<<v[1], v[2] * 10>>)) ELSE rest

RECURSIVE DataPoints(_, _)
DataPoints(kwPredictions, ks) ==
    IF ks = {} THEN 0
    ELSE LET k == CHOOSE x \in ks : TRUE
         IN  Len(kwPredictions[k]) + DataPoints(kwPredictions, ks \ {k})

RawConfidence(kwPredictions) ==
    LET baseConfidence == MathMin(70, DataPoints(kwPredictions, DOMAIN kwPredictions) * 5)
    IN  RSub(RInt(baseConfidence), VolatilityPenalty(kwPredictions, DOMAIN kwPredictions))

ConfidenceWithoutFloor(raw) == RMin(RInt(95), raw)

ClampConfidence(raw) == RMax(RInt(30), RMin(RInt(95), raw))

calculateConfidenceScore(kwPredictions) == ClampConfidence(RawConfidence(kwPredictions))

-----------------------------------------------------------------------------
(* Suggested actions and the emergency result *)

(* The five default action texts; each is built from the niche and kws *)
getDefaultActions(kws) == [i \in 1..5 |-> [template |-> i, keywords |-> kws]]

(* Lines of generated text kept as actions *)
GeneratedActions(lines) == [i \in 1..MathMin(lines, 5) |-> [template |-> 0, keywords |-> <<>>]]

(* nextMonth.setMonth(getMonth() + 1): the call date one month later *)
NextMonthDays == 28..31

generateFallbackPrediction(kws, nextMonth) ==
    [kind               |-> "value",
     keywords           |-> kws,
     predictions        |-> [i \in 1..Len(kws) |->
                               [keyword         |-> kws[i],
                                currentValue    |-> 50,
                                predictedValues |-> <<55, 60, 65>>,
                                explanation     |-> "fallback"]],
     interventionPoints |-> << [timestamp |-> nextMonth, action |-> "content",
                                keywords  |-> SliceTo(kws, 2)] >>,
     nextActions        |-> getDefaultActions(kws),
     confidenceScore    |-> RInt(35)]

Raised == [kind |-> "raised"]
NoResult == [kind |-> "none"]

PropagateToCaller(kws, nextMonth) == Raised

(* catch block of predictTrends *)
PredictTrendsCatch(kws, nextMonth) == generateFallbackPrediction(kws, nextMonth)

-----------------------------------------------------------------------------
(* suggestNextActions: Array.prototype.sort on the predictions list itself *)

GrowthIsNaN(p) == Len(p.predictedValues) = 0

Growth(p) == LastPredicted(p) - p.currentValue

RECURSIVE InsertByGrowth(_, _)
InsertByGrowth(sorted, p) ==
    IF sorted = <<>> THEN <<p>>
    ELSE IF Growth(Head(sorted)) >= Growth(p)
         THEN <<Head(sorted)>> \o InsertByGrowth(Tail(sorted), p)
         ELSE <<p>> \o sorted

RECURSIVE StableSortByGrowth(_)
StableSortByGrowth(s) ==
    IF s = <<>> THEN <<>>
    ELSE InsertByGrowth(StableSortByGrowth(SubSeq(s, 1, Len(s) - 1)), s[Len(s)])

(* The orders sort may leave the list in: the stable descending order, or  *)
(* any order when a comparison yields NaN (the comparator is then not      *)
(* consistent and the order is implementation-defined).                    *)
SortByGrowthOutcomes(s) ==
    IF \E i \in 1..Len(s) : GrowthIsNaN(s[i])
    THEN IF Len(s) < 2 THEN {s}
         ELSE {[i \in 1..Len(s) |-> s[f[i]]] : f \in Permutations(1..Len(s))}
    ELSE {StableSortByGrowth(s)}

(* Number of non-empty lines of the generated action text *)
LineSamples == {0, 3, 6}

ActionResponses ==
    [kind : {"text"}, lines : LineSamples]
        \cup {[kind |-> "failmsg", lines |-> 1], [kind |-> "undefined", lines |-> 0]}

suggestNextActions(kws, sortedPredictions, response) ==
    LET topKeywords == KeywordsOf(SliceTo(sortedPredictions, 3))
        actions     == GeneratedActions(response.lines)
    IN  IF response.kind = "undefined"
        THEN getDefaultActions(SliceTo(kws, 2))
        ELSE IF Len(actions) > 0 THEN actions ELSE getDefaultActions(topKeywords)

-----------------------------------------------------------------------------
(* predictTrends *)

(* Historical series of the predictTrends requests that are explored *)
HistorySamples == { <<>>, <<10, 10, 10>>, <<10, 20, 30>>, <<100, 50, 0>> }

RequestKeywords(n) == [i \in 1..n |-> i]

AllSeries == SeqsUpTo(ValueSamples, MaxPoints)

PredictionResponses ==
    [kind : {"json_array"}, items : SeqsUpTo(PredictionItemSamples, MaxJsonItems)]
        \cup [kind : GenerationKinds \ {"json_array"}, items : {<<>>}]

InitLocals ==
    /\ keywordPredictions = <<>>
    /\ contentInsights = "none"
    /\ combinedPrediction = <<>>
    /\ interventionPoints = <<>>
    /\ nextActions = <<>>
    /\ threw = FALSE
    /\ result = NoResult

NoResponse == [kind |-> "none", items |-> <<>>, text |-> <<>>]

(* classifyTrends has not been called *)
NotCalled == [called |-> FALSE, failed |-> FALSE, classifications |-> <<>>]

InitTrendsLocals ==
    /\ trendsData = [format |-> "none"]
    /\ redditData = 0
    /\ articles = 0
    /\ failures = {}
    /\ trendingKeywords = <<>>
    /\ emergingKeywords = 0
    /\ aiAnalysis = NoResponse
    /\ classification = NotCalled
    /\ opportunities = <<>>

(* analyzeCompetitors is not running *)
NoCompetitors == sites = <<>> /\ competitorData = <<>>

NoCall == [site |-> "none", index |-> 0, window |-> 0]

(* No external call is tracked *)
NoCalls == calls = {} /\ silent = NoCall /\ article = 0

NoData == [request |-> 0]

(* No TrendsPredictionChart is mounted *)
NoChart ==
    requests = <<>> /\ loading = FALSE /\ predictionData = NoData /\ chartData = NoData

InitEntryLocals == NoCompetitors /\ NoCalls /\ NoChart

InitPredict ==
    /\ op = "predictTrends"
    /\ pc = "analyzeHistoricalTrends"
    /\ \E n \in 0..MaxKeywords :
          /\ keywords = RequestKeywords(n)
          /\ historicalData \in [1..n -> HistorySamples]
    /\ recentArticles \in {0, 1}
    /\ InitLocals
    /\ InitEntryLocals
    /\ variant = "extended"
    /\ InitTrendsLocals

(* The Forecaster alone, on one keyword with any bounded series or none *)
InitForecast ==
    /\ op = "analyzeHistoricalTrends"
    /\ pc = "analyzeHistoricalTrends"
    /\ keywords = RequestKeywords(1)
    /\ historicalData \in {<<>>} \cup [{1} -> AllSeries]
    /\ recentArticles = 0
    /\ InitLocals
    /\ InitEntryLocals
    /\ variant = "extended"
    /\ InitTrendsLocals

AnalyzeHistoricalTrends ==
    /\ pc = "analyzeHistoricalTrends"
    /\ keywordPredictions' = analyzeHistoricalTrends(keywords, historicalData)
    /\ pc' = IF op = "predictTrends" THEN "analyzeContent" ELSE "done"
    /\ UNCHANGED <<requestVars, entryVars, trendsVars, contentInsights, combinedPrediction,
                   interventionPoints, nextActions, threw, result>>

analyzeContent(titles, responseKind) ==
    IF titles = 0 THEN "insufficient" ELSE responseKind

AnalyzeContent ==
    /\ pc = "analyzeContent"
    /\ \E kind \in {"text", "failmsg", "undefined"} :
          contentInsights' = analyzeContent(recentArticles, kind)
    /\ pc' = "generateCombinedPrediction"
    /\ UNCHANGED <<requestVars, entryVars, trendsVars, keywordPredictions, combinedPrediction,
                   interventionPoints, nextActions, threw, result>>

GenerateCombinedPrediction ==
    /\ pc = "generateCombinedPrediction"
    /\ \E response \in PredictionResponses :
          combinedPrediction' =
              generateCombinedPrediction(keywords, keywordPredictions, response)
    /\ pc' = "calculateInterventionPoints"
    /\ UNCHANGED <<requestVars, entryVars, trendsVars, keywordPredictions, contentInsights,
                   interventionPoints, nextActions, threw, result>>

(* Stage 4; an exception of the stage lands in the catch of predictTrends *)
CalculateInterventionPoints ==
    /\ pc = "calculateInterventionPoints"
    /\ IF GrowthComparatorThrows(SelectGrowing(combinedPrediction))
       THEN /\ \E nextMonth \in NextMonthDays :
                  result' = PredictTrendsCatch(keywords, nextMonth)
            /\ threw' = TRUE
            /\ pc' = "done"
            /\ UNCHANGED interventionPoints
       ELSE /\ interventionPoints' = calculateInterventionPoints(combinedPrediction)
            /\ pc' = "suggestNextActions"
            /\ UNCHANGED <<threw, result>>
    /\ UNCHANGED <<requestVars, entryVars, trendsVars, keywordPredictions, contentInsights,
                   combinedPrediction, nextActions>>

(* suggestNextActions, calculateConfidenceScore and the return statement *)
SuggestNextActions ==
    /\ pc = "suggestNextActions"
    /\ \E sorted \in SortByGrowthOutcomes(combinedPrediction), response \in ActionResponses :
          /\ combinedPrediction' = sorted
          /\ nextActions' = suggestNextActions(keywords, sorted, response)
          /\ result' = [kind               |-> "value",
                        keywords           |-> keywords,
                        predictions        |-> sorted,
                        interventionPoints |-> interventionPoints,
                        nextActions        |-> nextActions',
                        confidenceScore    |-> calculateConfidenceScore(keywordPredictions)]
    /\ pc' = "done"
    /\ UNCHANGED <<requestVars, entryVars, trendsVars, keywordPredictions, contentInsights,
                   interventionPoints, threw>>

NextPredict ==
    \/ AnalyzeHistoricalTrends
    \/ AnalyzeContent
    \/ GenerateCombinedPrediction
    \/ CalculateInterventionPoints
    \/ SuggestNextActions

(* A series of 12 weekly points, as the demo request builds it, with       *)
(* strictly increasing values in [0,100]                                   *)
RampPoints == 12

RampStarts == {0, 12}

RampSteps == {1, 8}

RampSeries(start, steps) ==
    [k \in 1..RampPoints |-> start + SumSeq(SubSeq(steps, 1, k - 1))]

InitRamp ==
    /\ op = "analyzeHistoricalTrends"
    /\ pc = "analyzeHistoricalTrends"
    /\ keywords = RequestKeywords(1)
    /\ \E start \in RampStarts, steps \in [1..(RampPoints - 1) -> RampSteps] :
          historicalData = [k \in {1} |-> RampSeries(start, steps)]
    /\ recentArticles = 0
    /\ InitLocals
    /\ InitEntryLocals
    /\ variant = "extended"
    /\ InitTrendsLocals

NextForecast == AnalyzeHistoricalTrends

SpecPredict == InitPredict /\ [][NextPredict]_vars

SpecForecast == InitForecast /\ [][NextForecast]_vars

SpecRamp == InitRamp /\ [][NextForecast]_vars

-----------------------------------------------------------------------------
(* Opportunity Synthesizer, opportunity discovery (TrendsService).         *)
(*                                                                         *)
(* Two variants of TrendsService are part of the repository: "basic" (one  *)
(* search-interest request, DeepSeek only) and "extended" (three time      *)
(* windows, Reddit, Cohere ranking).                                       *)
(*                                                                         *)
(* Text is a sequence of tokens:                                           *)
(*   "opp"     the section marker word (oportunidad)                       *)
(*   "num:"    a number followed by a colon, "1:"                          *)
(*   "title:"  a title label with its colon, "Título:"                     *)
(*   "word"    any other run of text without marker, label or colon        *)
(*   "nl"      a line break                                                *)
(* The empty sequence is the empty string.                                 *)

Tokens == {"opp", "num:", "title:", "word", "nl"}

MaxTextLen == 4

Undefined == -1

SetMin(S) == CHOOSE x \in S : \A y \in S : x <= y

(* End of the lazy match that starts at marker i: just before the next     *)
(* marker, or the end of the text                                          *)
SegmentEnd(text, i) ==
    LET later == {j \in (i + 1)..Len(text) : text[j] = "opp"}
    IN  IF later = {} THEN Len(text) ELSE SetMin(later) - 1

Segment(text, i) == SubSeq(text, i, SegmentEnd(text, i))

HasLineBreak(seg) == \E j \in 1..Len(seg) : seg[j] = "nl"

(* text.match(opportunityRegex) || []: with the s flag the dot crosses     *)
(* line breaks; without it a match cannot contain one                      *)
RECURSIVE OpportunityMatches(_, _, _)
OpportunityMatches(text, i, dotAll) ==
    IF i > Len(text) THEN <<>>
    ELSE IF text[i] = "opp" /\ (dotAll \/ ~HasLineBreak(Segment(text, i)))
         THEN <<Segment(text, i)>> \o OpportunityMatches(text, SegmentEnd(text, i) + 1, dotAll)
         ELSE OpportunityMatches(text, i + 1, dotAll)

(* match.split('\n')[0] *)
FirstLine(seg) ==
    LET breaks == {j \in 1..Len(seg) : seg[j] = "nl"}
    IN  IF breaks = {} THEN seg ELSE SubSeq(seg, 1, SetMin(breaks) - 1)

RECURSIVE SkipLineBreaks(_)
SkipLineBreaks(seg) ==
    IF seg # <<>> /\ Head(seg) = "nl" THEN SkipLineBreaks(Tail(seg)) ELSE seg

(* titleRegex: the text after the first title label, up to the line end *)
HasTitleLabel(seg) == \E j \in 1..Len(seg) : seg[j] = "title:"

TitleAfterLabel(seg) ==
    LET j == SetMin({k \in 1..Len(seg) : seg[k] = "title:"})
    IN  FirstLine(SkipLineBreaks(SubSeq(seg, j + 1, Len(seg))))

(* replace(/(?:oportunidad|opportunity)\s*\d*\s*:?\s*/i, ''): number and  *)
(* colon are optional                                                      *)
StripMarkerExtended(line) ==
    IF Len(line) >= 2 /\ line[2] = "num:" THEN SubSeq(line, 3, Len(line))
    ELSE SubSeq(line, 2, Len(line))

(* replace(/oportunidad\s*\d+:\s*/i, ''): number and colon are required *)
StripMarkerBasic(line) ==
    IF Len(line) >= 2 /\ line[2] = "num:" THEN SubSeq(line, 3, Len(line))
    ELSE line

PlaceholderTitle == <<"opp", "word">>

TitleOrPlaceholder(title) == IF title = <<>> THEN PlaceholderTitle ELSE title

ExtendedTitle(seg) ==
    TitleOrPlaceholder(IF HasTitleLabel(seg) THEN TitleAfterLabel(seg)
                       ELSE StripMarkerExtended(FirstLine(seg)))

(* match.trim() *)
RECURSIVE TrimRight(_)
TrimRight(seg) ==
    IF seg # <<>> /\ seg[Len(seg)] = "nl" THEN TrimRight(SubSeq(seg, 1, Len(seg) - 1)) ELSE seg

(* Math.floor(Math.random() * 40) + 60 *)
RandomGrowthSamples == {60, 99}

(* Math.floor(Math.random() * 1000) *)
RandomIdSamples == {1, 999}

extractOpportunitiesFromTextBasic(text) ==
    LET matches == OpportunityMatches(text, 1, FALSE)
    IN  [i \in 1..Len(matches) |->
            [id            |-> i,
             title         |-> StripMarkerBasic(FirstLine(matches[i])),
             justification |-> matches[i],
             growth        |-> Undefined]]

extractOpportunitiesFromTextExtended(text, growths) ==
    LET matches == OpportunityMatches(text, 1, TRUE)
    IN  [i \in 1..Len(matches) |->
            [id            |-> i,
             title         |-> ExtendedTitle(matches[i]),
             justification |-> TrimRight(matches[i]),
             growth        |-> growths[i]]]

(* Every list extractOpportunitiesFromText can return for a text *)
ExtractOutcomes(v, text) ==
    IF v = "basic" THEN {extractOpportunitiesFromTextBasic(text)}
    ELSE {extractOpportunitiesFromTextExtended(text, g) :
            g \in [1..Len(OpportunityMatches(text, 1, TRUE)) -> RandomGrowthSamples]}

(* Items a generated opportunity array may hold; a negative id stands for  *)
(* an id that is not a number, an empty title or justification for a       *)
(* missing one                                                             *)
OpportunityItemSamples ==
    { [id |-> 1,  title |-> <<"word">>, justification |-> <<"word">>, growth |-> 85],
      [id |-> 1,  title |-> <<>>,       justification |-> <<>>,       growth |-> Undefined],
      [id |-> -1, title |-> <<"word">>, justification |-> <<"word">>, growth |-> 40] }

(* "Validar y limpiar los resultados" *)
CleanOpportunity(opp, randomId) ==
    [id            |-> IF opp.id >= 0 THEN opp.id ELSE randomId,
     title         |-> IF opp.title # <<>> THEN opp.title ELSE <<"word", "word">>,
     justification |-> IF opp.justification # <<>> THEN opp.justification ELSE <<"word", "word">>,
     growth        |-> opp.growth]

CleanOutcomes(items) ==
    {[i \in 1..Len(items) |-> CleanOpportunity(items[i], ids[i])] :
        ids \in [1..Len(items) -> RandomIdSamples]}

generateBasicOpportunities(kws) ==
    LET first  == [id |-> 1, title |-> <<"word">>, justification |-> <<"word">>, growth |-> 85]
        second == [id |-> 2, title |-> <<"word">>, justification |-> <<"word">>, growth |-> 75]
        third  == [id |-> 3, title |-> <<"word">>, justification |-> <<"word">>, growth |-> 70]
    IN  <<first>> \o (IF Len(kws) > 0 THEN <<second>> ELSE <<>>)
                  \o (IF Len(kws) > 1 THEN <<third>> ELSE <<>>)

-----------------------------------------------------------------------------
(* Opportunity Ranker *)

(* A classification: predicted label and confidence in percent *)
ClassificationSamples ==
    { [prediction |-> "alta_prioridad", confidence |-> 100],
      [prediction |-> "prioridad_media", confidence |-> 50],
      [prediction |-> "baja_prioridad", confidence |-> 90] }

PriorityScoreTwoLevels(prediction) ==
    IF prediction = "alta_prioridad" THEN 100 ELSE 30

PriorityScore(prediction) ==
    IF prediction = "alta_prioridad" THEN 100
    ELSE IF prediction = "prioridad_media" THEN 70
    ELSE 30

ScoreOpportunity(opp, c) ==
    [opp EXCEPT !.growth = MathRound(PriorityScore(c.prediction) * c.confidence, 100)]

(* (b.growth || 0) - (a.growth || 0) *)
GrowthOrZero(opp) == IF opp.growth = Undefined THEN 0 ELSE opp.growth

RECURSIVE InsertTiesFirst(_, _)
InsertTiesFirst(sorted, o) ==
    IF sorted = <<>> THEN <<o>>
    ELSE IF GrowthOrZero(Head(sorted)) > GrowthOrZero(o)
         THEN <<Head(sorted)>> \o InsertTiesFirst(Tail(sorted), o)
         ELSE <<o>> \o sorted

RECURSIVE InsertByScore(_, _)
InsertByScore(sorted, o) ==
    IF sorted = <<>> THEN <<o>>
    ELSE IF GrowthOrZero(Head(sorted)) >= GrowthOrZero(o)
         THEN <<Head(sorted)>> \o InsertByScore(Tail(sorted), o)
         ELSE <<o>> \o sorted

RECURSIVE SortByScore(_)
SortByScore(s) ==
    IF s = <<>> THEN <<>>
    ELSE InsertByScore(SortByScore(SubSeq(s, 1, Len(s) - 1)), s[Len(s)])

(* What classifyTrends can do: throw, or return a list of classifications  *)
(* that may be shorter than the inputs                                     *)
ClassificationOutcomes(n) ==
    [called : {TRUE}, failed : {TRUE}, classifications : {<<>>}]
        \cup [called : {TRUE}, failed : {FALSE},
              classifications :
                  UNION {[1..k -> ClassificationSamples] : k \in {0, n - 1, n}}]

SkipsRankingBelowTwo(opps) == Len(opps) < 2

(* "Si hay menos de 3 oportunidades, devolver tal cual" *)
SkipsRanking(opps) == Len(opps) < 3

RankCatchReturnsNothing(opps) == <<>>

(* catch block of rankOpportunities *)
RankCatch(opps) == opps

rankOpportunities(opps, outcome) ==
    IF SkipsRanking(opps) THEN opps
    ELSE IF outcome.failed \/ Len(outcome.classifications) < Len(opps) THEN RankCatch(opps)
    ELSE SortByScore([i \in 1..Len(opps) |-> ScoreOpportunity(opps[i], outcome.classifications[i])])

(* What the call of classifyTrends in rankOpportunities yields, if made *)
ClassifyOutcomesFor(opps) ==
    IF SkipsRanking(opps) THEN {NotCalled} ELSE ClassificationOutcomes(Len(opps))

-----------------------------------------------------------------------------
(* Signal Collector and Trend Aggregator (TrendsService) *)

MaxTrendKeywords == 2
MaxArticles == 1
MaxOppItems == 3

RMul(a, b) == RNorm(<<a[1] * b[1], a[2] * b[2]>>)

(* First and last value of a fetched interest series *)
FetchedSeriesSamples == { <<0, 40>>, <<40, 20>> }

TimeRanges == <<"today 3-m", "today 1-m", "today 1-w">>

(* Math.floor(Math.random() * 50) and Math.floor(Math.random() * 100) of   *)
(* the two simulated points of the basic variant                           *)
BasicRandomSamples == { <<0, 99>>, <<49, 0>> }

getSimulatedTrendsDataBasic(kws, random) ==
    [format |-> "single", named |-> TRUE,
     first  |-> [i \in 1..Len(kws) |-> random[i][1]],
     last   |-> [i \in 1..Len(kws) |-> random[i][2]]]

(* Math.floor(Math.random() * 40) of the first and the last of the 12      *)
(* simulated points of the extended variant                                *)
ExtendedRandomSamples == { <<0, 39>>, <<39, 0>> }

ClipSimulated(v) == MathMax(5, MathMin(100, v))

(* Simulated value of keyword index idx (0-based) at point i = 0 and at    *)
(* point i = 11: upward trend i * 2, fluctuation floor(sin(i * 0.5) * 15)  *)
(* which is 0 at i = 0 and -11 at i = 11, or a spike at i = 6 only         *)
SimulatedFirst(idx, r) == ClipSimulated(30 + r)

SimulatedLast(idx, r) ==
    ClipSimulated(IF idx % 3 = 0 THEN 30 + r + 22
                  ELSE IF idx % 3 = 1 THEN 30 + r - 11
                  ELSE 30 + r)

getSimulatedTrendsDataExtended(kws, random) ==
    [format |-> "single", named |-> TRUE,
     first  |-> [i \in 1..Len(kws) |-> SimulatedFirst(i - 1, random[i][1])],
     last   |-> [i \in 1..Len(kws) |-> SimulatedLast(i - 1, random[i][2])]]

(* Growth in percent as a rational; a zero denominator is Infinity *)
GrowthPercent(first, last, denominator) == RNorm(<<(last - first) * 100, denominator>>)

(* timelineData branch: one column per comparison item *)
RECURSIVE SingleFormatTrending(_, _, _)
SingleFormatTrending(td, kws, i) ==
    IF i > Len(td.first) THEN <<>>
    ELSE (IF td.last[i] > td.first[i]
          THEN << [keyword |-> IF td.named THEN kws[i] ELSE 0,
                   growth  |-> GrowthPercent(td.first[i], td.last[i], td.first[i])] >>
          ELSE <<>>) \o SingleFormatTrending(td, kws, i + 1)

WindowWeightOldestHeaviest(timeRange) ==
    IF timeRange = "today 1-w" THEN <<1, 10>>
    ELSE IF timeRange = "today 1-m" THEN <<3, 10>>
    ELSE <<6, 10>>

WindowWeight(timeRange) ==
    IF timeRange = "today 1-w" THEN <<6, 10>>
    ELSE IF timeRange = "today 1-m" THEN <<3, 10>>
    ELSE <<1, 10>>

MergeGrowth(existing, growth, timeRange) ==
    LET w == WindowWeight(timeRange)
    IN  RAdd(RMul(existing, RSub(RInt(1), w)), RMul(growth, w))

UpdateTrending(acc, keyword, growth, timeRange) ==
    IF \E i \in 1..Len(acc) : acc[i].keyword = keyword
    THEN [i \in 1..Len(acc) |->
            IF acc[i].keyword = keyword
            THEN [acc[i] EXCEPT !.growth = MergeGrowth(acc[i].growth, growth, timeRange)]
            ELSE acc[i]]
    ELSE Append(acc, [keyword |-> keyword, growth |-> growth])

RECURSIVE FoldKeywordData(_, _, _)
FoldKeywordData(acc, keywordData, timeRange) ==
    IF keywordData = <<>> THEN acc
    ELSE LET item == Head(keywordData)
             next == IF item.last > item.first
                     THEN UpdateTrending(acc, item.keyword,
                              GrowthPercent(item.first, item.last, MathMax(1, item.first)),
                              timeRange)
                     ELSE acc
         IN  FoldKeywordData(next, Tail(keywordData), timeRange)

RECURSIVE FoldWindows(_, _)
FoldWindows(acc, windows) ==
    IF windows = <<>> THEN acc
    ELSE FoldWindows(FoldKeywordData(acc, Head(windows).keywordData, Head(windows).timeRange),
                     Tail(windows))

RECURSIVE InsertByGrowthPercent(_, _)
InsertByGrowthPercent(sorted, t) ==
    IF sorted = <<>> THEN <<t>>
    ELSE IF RLeq(t.growth, Head(sorted).growth)
         THEN <<Head(sorted)>> \o InsertByGrowthPercent(Tail(sorted), t)
         ELSE <<t>> \o sorted

RECURSIVE SortByGrowthPercent(_)
SortByGrowthPercent(s) ==
    IF s = <<>> THEN <<>>
    ELSE InsertByGrowthPercent(SortByGrowthPercent(SubSeq(s, 1, Len(s) - 1)), s[Len(s)])

(* processedTrends.trendingKeywords; the basic variant knows only the      *)
(* timelineData format                                                     *)
processTrendsData(v, td, kws) ==
    IF td.format = "single" THEN SingleFormatTrending(td, kws, 1)
    ELSE IF td.format = "windows" /\ v = "extended"
         THEN SortByGrowthPercent(FoldWindows(<<>>, td.windows))
         ELSE <<>>

(* Outcome of the fetches of one time window or of the single request of   *)
(* the basic variant: an error, or the first and last value of the series  *)
FetchOutcomes ==
    {[error |-> TRUE, series |-> <<0, 0>>]}
        \cup {[error |-> FALSE, series |-> s] : s \in FetchedSeriesSamples}

RECURSIVE SuccessfulWindows(_, _, _)
SuccessfulWindows(kws, outcomes, w) ==
    IF w > Len(outcomes) THEN <<>>
    ELSE (IF outcomes[w].error THEN <<>>
          ELSE << [timeRange   |-> TimeRanges[w],
                   keywordData |-> [i \in 1..Len(kws) |->
                                      [keyword |-> kws[i],
                                       first   |-> outcomes[w].series[1],
                                       last    |-> outcomes[w].series[2]]]] >>)
         \o SuccessfulWindows(kws, outcomes, w + 1)

getGoogleTrends(kws, outcomes, random) ==
    LET successfulResults == SuccessfulWindows(kws, outcomes, 1)
    IN  IF Len(successfulResults) = 0
        THEN getSimulatedTrendsDataExtended(kws, random)
        ELSE [format |-> "windows", windows |-> successfulResults]

getBasicTrends(kws, outcome, random) ==
    IF outcome.error
    THEN getSimulatedTrendsDataBasic(kws, random)
    ELSE [format |-> "single", named |-> FALSE,
          first |-> <<outcome.series[1]>>, last |-> <<outcome.series[2]>>]

(* The Reddit search fails and yields [], or yields a post *)
RedditOutcomes == {[error |-> TRUE, count |-> 0], [error |-> FALSE, count |-> 1]}

(* Number of articles the feed request yields; an error yields [] *)
FeedOutcomes(max) == [error : {TRUE}, count : {0}] \cup [error : {FALSE}, count : 0..max]

(* Keywords of a Cohere completion, split by commas; 9 is a keyword that   *)
(* is not in the request                                                   *)
EmergingKeywordSamples == { <<>>, <<1, 9>> }

detectEmergingKeywords(baseKeywords, response) ==
    SelectSeq(response, LAMBDA k : \A i \in 1..Len(baseKeywords) : baseKeywords[i] # k)

(* Texts of an opportunity analysis, as token sequences *)
TextSamples ==
    { <<"word", "nl", "word">>,
      <<"opp", "num:", "word">>,
      <<"opp", "num:", "nl", "word">>,
      <<"opp", "word", "opp", "word">> }

(* 'No se pudo generar la respuesta. Por favor, intenta nuevamente.' *)
FailureMessage == <<"word", "word">>

OpportunityResponses ==
    [kind : {"json_array"}, items : SeqsUpTo(OpportunityItemSamples, MaxOppItems), text : {<<>>}]
        \cup [kind : {"json_other"}, items : {<<>>}, text : {<<"word">>, <<"opp", "num:", "word">>}]
        \cup [kind : {"text"}, items : {<<>>}, text : TextSamples]
        \cup [kind : {"failmsg"}, items : {<<>>}, text : {FailureMessage}]
        \cup [kind : {"undefined"}, items : {<<>>}, text : {<<>>}]

-----------------------------------------------------------------------------
(* getTrendsForNiche *)

InitTrends ==
    /\ op = "getTrendsForNiche"
    /\ variant \in {"basic", "extended"}
    /\ pc = "getTrends"
    /\ \E n \in 1..MaxTrendKeywords : keywords = RequestKeywords(n)
    /\ historicalData = <<>>
    /\ recentArticles = 0
    /\ InitLocals
    /\ InitEntryLocals
    /\ InitTrendsLocals

GetBasicTrends ==
    /\ op = "getTrendsForNiche" /\ variant = "basic" /\ pc = "getTrends"
    /\ \E outcome \in FetchOutcomes, random \in [1..Len(keywords) -> BasicRandomSamples] :
          /\ trendsData' = getBasicTrends(keywords, outcome, random)
          /\ failures' = IF outcome.error THEN failures \cup {"trends"} ELSE failures
    /\ pc' = "getRecentArticles"
    /\ UNCHANGED <<requestVars, entryVars, predictVars, variant, redditData, articles,
                   trendingKeywords, emergingKeywords, aiAnalysis, opportunities, result,
                   classification>>

GetGoogleTrends ==
    /\ op = "getTrendsForNiche" /\ variant = "extended" /\ pc = "getTrends"
    /\ \E outcomes \in [1..Len(TimeRanges) -> FetchOutcomes],
          random \in [1..Len(keywords) -> ExtendedRandomSamples] :
          /\ trendsData' = getGoogleTrends(keywords, outcomes, random)
          /\ failures' = IF \A w \in 1..Len(TimeRanges) : outcomes[w].error
                         THEN failures \cup {"trends"} ELSE failures
    /\ pc' = "getRedditTrends"
    /\ UNCHANGED <<requestVars, entryVars, predictVars, variant, redditData, articles,
                   trendingKeywords, emergingKeywords, aiAnalysis, opportunities, result,
                   classification>>

GetRedditTrends ==
    /\ op = "getTrendsForNiche" /\ pc = "getRedditTrends"
    /\ \E outcome \in RedditOutcomes :
          /\ redditData' = outcome.count
          /\ failures' = IF outcome.error THEN failures \cup {"reddit"} ELSE failures
    /\ pc' = "getRecentArticles"
    /\ UNCHANGED <<requestVars, entryVars, predictVars, variant, trendsData, articles,
                   trendingKeywords, emergingKeywords, aiAnalysis, opportunities, result,
                   classification>>

GetRecentArticles ==
    /\ op = "getTrendsForNiche" /\ pc = "getRecentArticles"
    /\ \E outcome \in FeedOutcomes(MaxArticles) :
          /\ articles' = outcome.count
          /\ failures' = IF outcome.error THEN failures \cup {"articles"} ELSE failures
    /\ pc' = "processTrendsData"
    /\ UNCHANGED <<requestVars, entryVars, predictVars, variant, trendsData, redditData,
                   trendingKeywords, emergingKeywords, aiAnalysis, opportunities, result,
                   classification>>

(* analyzeOpportunities, first statement *)
ProcessTrendsData ==
    /\ op = "getTrendsForNiche" /\ pc = "processTrendsData"
    /\ trendingKeywords' = processTrendsData(variant, trendsData, keywords)
    /\ pc' = IF variant = "extended" THEN "detectEmergingKeywords" ELSE "generateCompletion"
    /\ UNCHANGED <<requestVars, entryVars, predictVars, variant, trendsData, redditData, articles,
                   failures, emergingKeywords, aiAnalysis, opportunities, result,
                   classification>>

DetectEmergingKeywords ==
    /\ op = "getTrendsForNiche" /\ pc = "detectEmergingKeywords"
    /\ \E response \in EmergingKeywordSamples :
          emergingKeywords' = Len(detectEmergingKeywords(keywords, response))
    /\ pc' = "generateCompletion"
    /\ UNCHANGED <<requestVars, entryVars, predictVars, variant, trendsData, redditData, articles,
                   failures, trendingKeywords, aiAnalysis, opportunities, result,
                   classification>>

TrendsResult(opps, isArray) ==
    [kind                 |-> "value",
     keywords             |-> keywords,
     trendingKeywords     |-> trendingKeywords,
     recentArticles       |-> articles,
     opportunities        |-> opps,
     opportunitiesIsArray |-> isArray]

(* deepseekService.generateCompletion and the try/catch around JSON.parse  *)
(* of the basic variant                                                    *)
AnalyzeOpportunitiesBasic ==
    /\ op = "getTrendsForNiche" /\ variant = "basic" /\ pc = "generateCompletion"
    /\ \E response \in OpportunityResponses :
          /\ aiAnalysis' = response
          /\ IF response.kind = "json_array"
             THEN /\ opportunities' = response.items
                  /\ result' = TrendsResult(response.items, TRUE)
             ELSE IF response.kind = "json_other"
             THEN /\ opportunities' = <<>>
                  /\ result' = TrendsResult(<<>>, FALSE)
             ELSE IF response.kind = "undefined"
             THEN /\ opportunities' = <<>>
                  /\ result' = Raised
             ELSE /\ opportunities' = extractOpportunitiesFromTextBasic(response.text)
                  /\ result' = TrendsResult(opportunities', TRUE)
    /\ pc' = "done"
    /\ UNCHANGED <<requestVars, entryVars, keywordPredictions, contentInsights, combinedPrediction,
                   interventionPoints, nextActions, threw, variant, trendsData,
                   redditData, articles, failures, trendingKeywords, emergingKeywords,
                   classification>>

(* deepseekService.generateCompletion and the inner and outer try/catch of *)
(* the extended variant                                                    *)
AnalyzeOpportunitiesExtended ==
    /\ op = "getTrendsForNiche" /\ variant = "extended" /\ pc = "generateCompletion"
    /\ \E response \in OpportunityResponses :
          /\ aiAnalysis' = response
          /\ IF response.kind = "undefined"
             THEN /\ opportunities' = generateBasicOpportunities(keywords)
                  /\ result' = TrendsResult(opportunities', TRUE)
                  /\ pc' = "done"
             ELSE /\ opportunities' \in
                        IF response.kind = "json_array"
                        THEN CleanOutcomes(response.items)
                        ELSE ExtractOutcomes("extended", response.text)
                  /\ pc' = "rankOpportunities"
                  /\ UNCHANGED result
    /\ UNCHANGED <<requestVars, entryVars, keywordPredictions, contentInsights, combinedPrediction,
                   interventionPoints, nextActions, threw, variant, trendsData,
                   redditData, articles, failures, trendingKeywords, emergingKeywords,
                   classification>>

RankOpportunities ==
    /\ op = "getTrendsForNiche" /\ pc = "rankOpportunities"
    /\ \E outcome \in ClassifyOutcomesFor(opportunities) :
          /\ classification' = outcome
          /\ opportunities' = rankOpportunities(opportunities, outcome)
          /\ result' = TrendsResult(opportunities', TRUE)
    /\ pc' = "done"
    /\ UNCHANGED <<requestVars, entryVars, keywordPredictions, contentInsights, combinedPrediction,
                   interventionPoints, nextActions, threw, variant, trendsData,
                   redditData, articles, failures, trendingKeywords, emergingKeywords,
                   aiAnalysis>>

NextTrends ==
    \/ GetBasicTrends
    \/ GetGoogleTrends
    \/ GetRedditTrends
    \/ GetRecentArticles
    \/ ProcessTrendsData
    \/ DetectEmergingKeywords
    \/ AnalyzeOpportunitiesBasic
    \/ AnalyzeOpportunitiesExtended
    \/ RankOpportunities

SpecTrends == InitTrends /\ [][NextTrends]_vars

-----------------------------------------------------------------------------
(* extractOpportunitiesFromText on its own *)

InitExtract ==
    /\ op = "extractOpportunitiesFromText"
    /\ variant \in {"basic", "extended"}
    /\ pc = "extractOpportunitiesFromText"
    /\ keywords = <<>>
    /\ historicalData = <<>>
    /\ recentArticles = 0
    /\ InitLocals
    /\ InitEntryLocals
    /\ trendsData = [format |-> "none"]
    /\ redditData = 0
    /\ articles = 0
    /\ failures = {}
    /\ trendingKeywords = <<>>
    /\ emergingKeywords = 0
    /\ \E text \in SeqsUpTo(Tokens, MaxTextLen) :
          aiAnalysis = [kind |-> "text", items |-> <<>>, text |-> text]
    /\ classification = NotCalled
    /\ opportunities = <<>>

ExtractOpportunitiesFromText ==
    /\ op = "extractOpportunitiesFromText" /\ pc = "extractOpportunitiesFromText"
    /\ opportunities' \in ExtractOutcomes(variant, aiAnalysis.text)
    /\ result' = [kind |-> "value", opportunities |-> opportunities']
    /\ pc' = "done"
    /\ UNCHANGED <<requestVars, entryVars, keywordPredictions, contentInsights, combinedPrediction,
                   interventionPoints, nextActions, threw, variant, trendsData,
                   redditData, articles, failures, trendingKeywords, emergingKeywords,
                   aiAnalysis,
                   classification>>

NextExtract == ExtractOpportunitiesFromText

SpecExtract == InitExtract /\ [][NextExtract]_vars

-----------------------------------------------------------------------------
(* rankOpportunities on its own *)

(* Opportunities as analyzeOpportunities hands them to the Ranker *)
RankInputSamples ==
    { [id |-> 1, title |-> <<"word">>, justification |-> <<"word">>, growth |-> 85],
      [id |-> 2, title |-> <<"word">>, justification |-> <<"word">>, growth |-> Undefined],
      [id |-> 3, title |-> <<"word">>, justification |-> <<"word">>, growth |-> 40] }

InitRank ==
    /\ op = "rankOpportunities"
    /\ variant = "extended"
    /\ pc = "rankOpportunities"
    /\ keywords = <<>>
    /\ historicalData = <<>>
    /\ recentArticles = 0
    /\ InitLocals
    /\ InitEntryLocals
    /\ trendsData = [format |-> "none"]
    /\ redditData = 0
    /\ articles = 0
    /\ failures = {}
    /\ trendingKeywords = <<>>
    /\ emergingKeywords = 0
    /\ aiAnalysis = NoResponse
    /\ classification = NotCalled
    /\ opportunities \in SeqsUpTo(RankInputSamples, MaxOppItems)

(* The call itself: the argument list is left as it was (map builds new    *)
(* objects and sort orders the new array)                                  *)
RankOpportunitiesCall ==
    /\ op = "rankOpportunities" /\ pc = "rankOpportunities"
    /\ \E outcome \in ClassifyOutcomesFor(opportunities) :
          /\ classification' = outcome
          /\ result' = [kind |-> "value",
                        opportunities |-> rankOpportunities(opportunities, outcome)]
    /\ pc' = "done"
    /\ UNCHANGED <<requestVars, entryVars, predictVars, variant, trendsData, redditData, articles,
                   failures, trendingKeywords, emergingKeywords, aiAnalysis,
                   opportunities>>

NextRank == RankOpportunitiesCall

SpecRank == InitRank /\ [][NextRank]_vars

-----------------------------------------------------------------------------
(* All operations together *)

-----------------------------------------------------------------------------
(* Properties of predictTrends and of the Forecaster *)

PredictDone == op = "predictTrends" /\ pc = "done"

ForecastDone == op = "analyzeHistoricalTrends" /\ pc = "done"

(* C1: predictTrends never propagates an exception: it always returns a    *)
(* result object, and when a pipeline stage threw, that object is the      *)
(* fallback result: confidenceScore 35, one prediction per request keyword *)
(* with currentValue 50 and predictedValues [55,60,65], and the five       *)
(* default nextActions.                                                    *)
C1_PredictTrendsNeverPropagates ==
    PredictDone =>
        /\ result.kind = "value"
        /\ threw =>
              /\ result.confidenceScore = <<35, 1>>
              /\ Len(result.predictions) = Len(keywords)
              /\ \A i \in 1..Len(keywords) :
                    /\ result.predictions[i].keyword = keywords[i]
                    /\ result.predictions[i].currentValue = 50
                    /\ result.predictions[i].predictedValues = <<55, 60, 65>>
              /\ Len(result.nextActions) = 5
              /\ \A i \in 1..5 : result.nextActions[i].template = i

C1_Witness ==
    /\ PredictDone
    /\ threw
    /\ result.kind = "value"
    /\ Len(result.predictions) >= 2
    /\ result.confidenceScore = <<35, 1>>

(* C2: the confidenceScore of every returned result, the fallback result   *)
(* included, lies in [30,95].                                              *)
C2_ConfidenceBounds ==
    (PredictDone /\ result.kind = "value") =>
        /\ RLeq(<<30, 1>>, result.confidenceScore)
        /\ RLeq(result.confidenceScore, <<95, 1>>)

(* a computed score strictly above the floor, from three or more keywords *)
C2_Witness ==
    /\ PredictDone
    /\ ~threw
    /\ result.kind = "value"
    /\ RLess(<<30, 1>>, result.confidenceScore)
    /\ result.confidenceScore # <<35, 1>>

(* C3: for a series of at least 3 points with values in [0,100], every     *)
(* value the Forecaster returns is an integer in [0,100].                  *)
C3_ForecastClamped ==
    (ForecastDone /\ Len(HistoryOf(historicalData, 1)) >= 3) =>
        \A i \in 1..Len(keywordPredictions[1]) : keywordPredictions[1][i] \in 0..100

(* the fitted line leaves [0,100] above and the forecast is held at 100 *)
C3_Witness ==
    /\ ForecastDone
    /\ Len(HistoryOf(historicalData, 1)) >= 3
    /\ LET pq == RegressionProjection(historicalData[1], 3)
       IN  pq[1] > 100 * pq[2]
    /\ keywordPredictions[1][3] = 100

(* C4: a series of length 0, 1 or 2, or no series at all, yields exactly   *)
(* the default sequence [50,55,60], whatever its values.                   *)
C4_ShortSeriesDefault ==
    (ForecastDone /\ Len(HistoryOf(historicalData, 1)) < 3) =>
        keywordPredictions[1] = <<50, 55, 60>>

C4_Witness ==
    /\ ForecastDone
    /\ 1 \in DOMAIN historicalData
    /\ historicalData[1] = <<0, 100>>
    /\ keywordPredictions[1] = <<50, 55, 60>>

(* C5: whenever the result of predictTrends contains intervention points,  *)
(* their timestamps are strictly increasing and are exactly call time +7,  *)
(* +14 and +30 days, for any number of growing keywords.                   *)
C5_InterventionTimestamps ==
    (PredictDone /\ result.kind = "value" /\ Len(result.interventionPoints) > 0) =>
        [i \in 1..Len(result.interventionPoints) |-> result.interventionPoints[i].timestamp]
            = <<7, 14, 30>>

(* C10: every PredictionDetail of a predictTrends result has exactly 3     *)
(* predictedValues, on every path.                                         *)
C10_HorizonLength ==
    (PredictDone /\ result.kind = "value") =>
        \A i \in 1..Len(result.predictions) :
            Len(result.predictions[i].predictedValues) = 3

-----------------------------------------------------------------------------
(* Properties of getTrendsForNiche and of extractOpportunitiesFromText *)

TrendsDone == op = "getTrendsForNiche" /\ pc = "done"

ExtractDone == op = "extractOpportunitiesFromText" /\ pc = "done"

AllFetchesFailed ==
    failures = IF variant = "basic" THEN {"trends", "articles"}
               ELSE {"trends", "reddit", "articles"}

(* C6: for every text the generation capability can return (a JSON array,  *)
(* an empty JSON array, JSON that is not an array, free text or the fixed  *)
(* failure message), the result of getTrendsForNiche has an opportunities  *)
(* list of length at least 1.                                              *)
C6_OpportunitiesNonEmpty ==
    (TrendsDone /\ aiAnalysis.kind \in {"json_array", "json_other", "text", "failmsg"}) =>
        /\ result.kind = "value"
        /\ result.opportunitiesIsArray
        /\ Len(result.opportunities) >= 1

(* C7: getTrendsForNiche never raises to its caller: for every combination *)
(* of source failures and generated outputs the caller receives a result   *)
(* object, never an error.                                                 *)
C7_GetTrendsNeverRaises ==
    TrendsDone => result.kind = "value"

(* C8: when every search-interest fetch and every feed fetch of a request  *)
(* failed, the returned result has a non-empty trendingKeywords list and a *)
(* non-empty opportunities list, whatever the simulated series are.        *)
C8_AllFetchesFailNonEmpty ==
    (TrendsDone /\ AllFetchesFailed /\ result.kind = "value") =>
        /\ Len(result.trendingKeywords) >= 1
        /\ result.opportunitiesIsArray
        /\ Len(result.opportunities) >= 1

(* C9: extractOpportunitiesFromText returns at least one opportunity for   *)
(* every text, also one without the marker word, and every opportunity it  *)
(* returns has a non-empty title and a non-empty justification.            *)
C9_TextFallbackNonEmpty ==
    ExtractDone =>
        /\ Len(result.opportunities) >= 1
        /\ \A i \in 1..Len(result.opportunities) :
              /\ result.opportunities[i].title # <<>>
              /\ result.opportunities[i].justification # <<>>

-----------------------------------------------------------------------------
(* Properties of the PredictionDetail records of a predictTrends result *)

RequestKeywordSet == {keywords[i] : i \in 1..Len(keywords)}

(* C11: in every predictTrends result, currentValue and each element of    *)
(* predictedValues of every PredictionDetail lies in [0,100], also when    *)
(* the values come from the structured output of the generation.           *)
C11_PredictionValuesInRange ==
    (PredictDone /\ result.kind = "value") =>
        \A i \in 1..Len(result.predictions) :
            /\ result.predictions[i].currentValue \in 0..100
            /\ \A j \in 1..Len(result.predictions[i].predictedValues) :
                  result.predictions[i].predictedValues[j] \in 0..100

(* C12: every PredictionDetail of a predictTrends result has a keyword of  *)
(* the request's keyword list, whatever keywords the generated structured  *)
(* output holds.                                                           *)
C12_PredictionKeywordsFromRequest ==
    (PredictDone /\ result.kind = "value") =>
        \A i \in 1..Len(result.predictions) :
            result.predictions[i].keyword \in RequestKeywordSet

-----------------------------------------------------------------------------
(* Properties of the opportunities of a getTrendsForNiche response *)

IdsUnique(opps) ==
    \A i, j \in 1..Len(opps) : i # j => opps[i].id # opps[j].id

(* C13: within one response of the extended getTrendsForNiche no two       *)
(* opportunities have the same id, on the structured-parse path, the       *)
(* text-fallback path and the basic-opportunities path.                    *)
C13_OpportunityIdsUnique ==
    (TrendsDone /\ variant = "extended" /\ result.kind = "value") =>
        IdsUnique(result.opportunities)

-----------------------------------------------------------------------------
(* Properties of rankOpportunities *)

RankDone == op = "rankOpportunities" /\ pc = "done"

ClassificationFailed ==
    /\ classification.called
    /\ classification.failed \/ Len(classification.classifications) < Len(opportunities)

ClassificationSucceeded ==
    /\ classification.called
    /\ ~classification.failed
    /\ Len(classification.classifications) >= Len(opportunities)

(* C14: given fewer than 3 opportunities, rankOpportunities makes no       *)
(* classification call and returns the input list: same elements, same     *)
(* order, same growth values.                                              *)
C14_SmallBatchUnranked ==
    (RankDone /\ Len(opportunities) < 3) =>
        /\ ~classification.called
        /\ result.kind = "value"
        /\ result.opportunities = opportunities

C14_Witness ==
    /\ RankDone
    /\ Len(opportunities) = 2
    /\ opportunities[1].growth = 40
    /\ opportunities[2].growth = 85
    /\ result.opportunities = opportunities

(* C15: when the classification throws or returns fewer classifications    *)
(* than inputs, rankOpportunities does not raise and returns the input     *)
(* opportunities unchanged.                                                *)
C15_ClassifierFailureUnranked ==
    (RankDone /\ ClassificationFailed) =>
        /\ result.kind = "value"
        /\ result.opportunities = opportunities

C15_Witness ==
    /\ RankDone
    /\ classification.called
    /\ ~classification.failed
    /\ Len(classification.classifications) = Len(opportunities) - 1
    /\ result.opportunities = opportunities

IndexPermutations(n) ==
    {f \in [1..n -> 1..n] : \A i, j \in 1..n : i # j => f[i] # f[j]}

(* base score of a predicted label as the claim states it *)
ClaimedBase(prediction) ==
    IF prediction = "alta_prioridad" THEN 100
    ELSE IF prediction = "prioridad_media" THEN 70
    ELSE 30

(* C16: given at least 3 opportunities and a successful classification,    *)
(* each returned opportunity is an input opportunity whose growth is       *)
(* round(base x confidence) of the classification at its input index, with *)
(* base 100 / 70 / 30, and the returned list is sorted by growth in        *)
(* non-increasing order.                                                   *)
C16_ScoredAndSorted ==
    (RankDone /\ Len(opportunities) >= 3 /\ ClassificationSucceeded) =>
        LET out == result.opportunities
            c   == classification.classifications
        IN  /\ result.kind = "value"
            /\ Len(out) = Len(opportunities)
            /\ \E f \in IndexPermutations(Len(out)) :
                  \A i \in 1..Len(out) :
                      out[i] = [opportunities[f[i]] EXCEPT !.growth =
                                   MathRound(ClaimedBase(c[f[i]].prediction) * c[f[i]].confidence, 100)]
            /\ \A i, j \in 1..Len(out) : i < j => out[i].growth >= out[j].growth

(* the third input, classified high, comes first; a medium one scores 35 *)
C16_Witness ==
    /\ RankDone
    /\ Len(opportunities) = 3
    /\ ClassificationSucceeded
    /\ classification.classifications[3].prediction = "alta_prioridad"
    /\ classification.classifications[1].prediction = "prioridad_media"
    /\ opportunities[3].id # opportunities[1].id
    /\ result.opportunities[1].id = opportunities[3].id
    /\ result.opportunities[1].growth = 100
    /\ \E i \in 2..3 : result.opportunities[i].growth = 35

(* C17: the order rankOpportunities returns is determined by its inputs:   *)
(* it is the one order by score in which opportunities of equal score keep *)
(* their input order.                                                      *)
C17_TiesKeepInputOrder ==
    (RankDone /\ Len(opportunities) >= 3 /\ ClassificationSucceeded) =>
        LET out == result.opportunities
            c   == classification.classifications
        IN  \E f \in IndexPermutations(Len(out)) :
               /\ \A i \in 1..Len(out) : out[i] = ScoreOpportunity(opportunities[f[i]], c[f[i]])
               /\ \A i, j \in 1..Len(out) :
                     (i < j /\ out[i].growth = out[j].growth) => f[i] < f[j]

(* the first and the third input tie below the second and keep their order *)
C17_Witness ==
    /\ RankDone
    /\ Len(opportunities) = 3
    /\ ClassificationSucceeded
    /\ opportunities[1].id # opportunities[3].id
    /\ result.opportunities[1].growth > result.opportunities[2].growth
    /\ result.opportunities[2].growth = result.opportunities[3].growth
    /\ result.opportunities[2].id = opportunities[1].id
    /\ result.opportunities[3].id = opportunities[3].id

-----------------------------------------------------------------------------
(* Properties of the Intervention Scheduler *)

(* calculateInterventionPoints has been called on combinedPrediction *)
ScheduleCalled == op = "predictTrends" /\ (pc = "suggestNextActions" \/ threw)

(* C18: the schedule built from a list of PredictionDetail records names   *)
(* exactly the records whose last predicted value exceeds currentValue,    *)
(* ordered by that growth descending: the +7-day entry lists the first 2   *)
(* of them, the +14-day entry the first 3 and the +30-day entry all.       *)
C18_ScheduleListsGrowingByGrowth ==
    (ScheduleCalled /\ SelectGrowing(combinedPrediction) # <<>>) =>
        /\ ~threw
        /\ LET growing == SelectGrowing(combinedPrediction)
           IN  \E f \in IndexPermutations(Len(growing)) :
                  LET ordered == [i \in 1..Len(growing) |-> growing[f[i]]]
                  IN  /\ \A i, j \in 1..Len(ordered) :
                            i < j => Growth(ordered[i]) >= Growth(ordered[j])
                      /\ Len(interventionPoints) = 3
                      /\ interventionPoints[1].timestamp = 7
                      /\ interventionPoints[1].keywords = SliceTo(KeywordsOf(ordered), 2)
                      /\ interventionPoints[2].timestamp = 14
                      /\ interventionPoints[2].keywords = SliceTo(KeywordsOf(ordered), 3)
                      /\ interventionPoints[3].timestamp = 30
                      /\ interventionPoints[3].keywords = KeywordsOf(ordered)

(* C19: if no PredictionDetail of the result has a last predicted value    *)
(* greater than its currentValue, the interventionPoints list of the       *)
(* result is empty.                                                        *)
C19_NoGrowthNoSchedule ==
    (PredictDone /\ result.kind = "value" /\ SelectGrowing(result.predictions) = <<>>) =>
        result.interventionPoints = <<>>

-----------------------------------------------------------------------------
(* Properties of the Forecaster on a 12-point ramp *)

StrictlyIncreasing(data) ==
    \A k \in 1..(Len(data) - 1) : data[k] < data[k + 1]

RampForecastDone ==
    /\ ForecastDone
    /\ 1 \in DOMAIN historicalData
    /\ Len(historicalData[1]) = RampPoints
    /\ StrictlyIncreasing(historicalData[1])
    /\ \A k \in 1..RampPoints : historicalData[1][k] \in 0..100

(* C20: for a series of 12 points with strictly increasing values in       *)
(* [0,100] the Forecaster returns 3 values, each at least the one before   *)
(* it and each at most 100, also when the projection reaches the clamp.    *)
C20_RampForecastAscending ==
    RampForecastDone =>
        LET forecast == keywordPredictions[1]
        IN  /\ Len(forecast) = 3
            /\ forecast[1] <= forecast[2]
            /\ forecast[2] <= forecast[3]
            /\ \A i \in 1..3 : forecast[i] <= 100

(* the fitted line passes 100 inside the horizon: the forecast rises to    *)
(* the clamp and stays there                                               *)
C20_Witness ==
    /\ RampForecastDone
    /\ keywordPredictions[1][1] < 100
    /\ keywordPredictions[1][3] = 100
    /\ LET pq == RegressionProjection(historicalData[1], 3)
       IN  pq[1] > 100 * pq[2]

-----------------------------------------------------------------------------
(* analyzeCompetitors: headings of the first three competitor URLs *)

MaxUrls == 4

(* Lengths of the trimmed texts of the h1, h2, h3 elements of a page, in   *)
(* document order: no heading, three headings of which one is too short,   *)
(* twelve headings that all qualify                                        *)
PageSamples ==
    { <<>>, <<25, 10, 11>>, <<20, 20, 20, 20, 20, 20, 20, 20, 20, 20, 20, 20>> }

(* What a URL serves: the request fails, or it yields a page *)
SiteOutcomes == [failed : {TRUE}, headings : {<<>>}] \cup [failed : {FALSE}, headings : PageSamples]

(* Positions of the headings with text && text.length > 10 *)
RECURSIVE CompetitorTitles(_, _)
CompetitorTitles(headings, i) ==
    IF i > Len(headings) THEN <<>>
    ELSE (IF headings[i] > 10 THEN <<i>> ELSE <<>>) \o CompetitorTitles(headings, i + 1)

AllSites(s) == s

(* urls.slice(0, 3) *)
ProcessedSites(s) == SliceTo(s, 3)

(* Body of the loop: the try block, or the catch block when the request    *)
(* failed; error "" stands for an entry without the error property         *)
CompetitorEntry(url, site) ==
    IF site.failed
    THEN [url |-> url, error |-> "No se pudo analizar este sitio", titles |-> <<>>]
    ELSE [url |-> url, error |-> "", titles |-> SliceTo(CompetitorTitles(site.headings, 1), 10)]

InitCompetitors ==
    /\ op = "analyzeCompetitors"
    /\ pc = "analyzeCompetitors"
    /\ keywords = <<>>
    /\ historicalData = <<>>
    /\ recentArticles = 0
    /\ InitLocals
    /\ variant = "basic"
    /\ InitTrendsLocals
    /\ NoCalls
    /\ NoChart
    /\ \E n \in 0..MaxUrls : sites \in [1..n -> SiteOutcomes]
    /\ competitorData = <<>>

(* One iteration of for (const url of urls.slice(0, 3)) *)
AnalyzeCompetitor ==
    /\ op = "analyzeCompetitors" /\ pc = "analyzeCompetitors"
    /\ Len(competitorData) < Len(ProcessedSites(sites))
    /\ LET i == Len(competitorData) + 1
       IN  competitorData' = Append(competitorData, CompetitorEntry(i, sites[i]))
    /\ UNCHANGED <<requestVars, predictVars, trendsVars, callVars, chartVars, pc, sites, result>>

(* return competitorData *)
AnalyzeCompetitorsReturn ==
    /\ op = "analyzeCompetitors" /\ pc = "analyzeCompetitors"
    /\ Len(competitorData) >= Len(ProcessedSites(sites))
    /\ pc' = "done"
    /\ result' = [kind |-> "competitorData", entries |-> competitorData]
    /\ UNCHANGED <<requestVars, predictVars, trendsVars, callVars, chartVars, competitorVars>>

NextCompetitors == AnalyzeCompetitor \/ AnalyzeCompetitorsReturn

SpecCompetitors == InitCompetitors /\ [][NextCompetitors]_vars

CompetitorsDone == op = "analyzeCompetitors" /\ pc = "done"

(* C21: analyzeCompetitors returns one entry per URL of the first three    *)
(* URLs, in input order, each with at most ten titles; a URL whose request *)
(* failed has the error text and no titles, the entries of the other URLs  *)
(* are what their pages yield, and a value is returned, not an exception   *)
C21_CompetitorEntries ==
    CompetitorsDone =>
        /\ result.kind = "competitorData"
        /\ Len(result.entries) = MathMin(3, Len(sites))
        /\ \A i \in 1..Len(result.entries) :
              LET e == result.entries[i]
                  qualifying == {j \in 1..Len(sites[i].headings) : sites[i].headings[j] > 10}
              IN  /\ e.url = i
                  /\ Len(e.titles) <= 10
                  /\ sites[i].failed => e.error = "No se pudo analizar este sitio" /\ e.titles = <<>>
                  /\ ~sites[i].failed =>
                        /\ e.error = ""
                        /\ Len(e.titles) = MathMin(10, Cardinality(qualifying))
                        /\ \A j \in 1..Len(e.titles) :
                              /\ e.titles[j] \in qualifying
                              /\ Cardinality({q \in qualifying : q < e.titles[j]}) = j - 1

(* Four URLs were requested, the second failed, the first has more than    *)
(* ten qualifying headings and the third has a heading that is too short   *)
C21_Witness ==
    /\ CompetitorsDone
    /\ Len(sites) = 4
    /\ sites[2].failed
    /\ ~sites[1].failed /\ Len(sites[1].headings) = 12
    /\ ~sites[3].failed /\ Len(sites[3].headings) = 3
    /\ Len(result.entries) = 3
    /\ result.entries[3].titles = <<1, 3>>

-----------------------------------------------------------------------------
(* External calls of one request of the extended TrendsService or of        *)
(* predictTrends: when each is launched, and what the request awaits        *)

MaxFeedItems == 2

(* Call sites inside the loop over the feed articles *)
ArticleSites == {"extractArticleContent", "summarizeContent"}

(* Call sites that post to the generation or the classification service *)
GenerationSites ==
    {"summarizeContent", "detectEmergingKeywords", "analyzeOpportunities",
     "rankOpportunities", "analyzeContent", "generateCombinedPrediction",
     "suggestNextActions"}

(* Call sites whose request carries a timeout option *)
TimeoutSites == {"extractArticleContent"}

FirstSite(o, nArticles) ==
    IF o = "getTrendsForNiche" THEN "getGoogleTrends"
    ELSE IF nArticles = 0 THEN "generateCombinedPrediction" ELSE "analyzeContent"

PendingCall(site, index, window) ==
    [site |-> site, index |-> index, window |-> window, status |-> "pending", items |-> 0]

(* The calls a call site launches before it awaits: getGoogleTrends maps    *)
(* every window and every keyword to a request, every other site issues one *)
CallsOf(site, kws, i) ==
    IF site = "getGoogleTrends"
    THEN {PendingCall(site, k, w) : k \in 1..Len(kws), w \in 1..Len(TimeRanges)}
    ELSE {PendingCall(site, IF site \in ArticleSites THEN i ELSE 0, 0)}

(* Calls of the call site the request is at *)
CurrentCalls(cs, site, i) ==
    {c \in cs : c.site = site /\ (site \in ArticleSites => c.index = i)}

(* Promise.all(keywordPromises) of window w rejected: its catch block      *)
(* returns {timeRange, error: true}                                        *)
WindowRejected(cs, w) ==
    \E c \in cs : c.site = "getGoogleTrends" /\ c.window = w /\ c.status = "failed"

WindowResolved(cs, w) ==
    \A c \in cs : (c.site = "getGoogleTrends" /\ c.window = w) => c.status = "ok"

NeverAwaited(site, cs) == TRUE

(* The await of the call site completes: the outer Promise.all when every  *)
(* window resolved or rejected, any other await when its call settled      *)
StageSettled(site, cs) ==
    IF site = "getGoogleTrends"
    THEN \A w \in 1..Len(TimeRanges) : WindowRejected(cs, w) \/ WindowResolved(cs, w)
    ELSE \A c \in cs : c.status # "pending"

NextArticle(i, n) ==
    IF i < n THEN <<"extractArticleContent", i + 1>> ELSE <<"detectEmergingKeywords", 0>>

(* Call sites that can follow the settled one, with the article index *)
NextSites(site, cs, i, n) ==
    LET ok == \A c \in cs : c.status = "ok"
    IN  CASE site = "getGoogleTrends" -> {<<"getRedditTrends", 0>>}
          [] site = "getRedditTrends" -> {<<"getRecentArticles", 0>>}
          [] site = "getRecentArticles" ->
                {IF n > 0 THEN <<"extractArticleContent", 1>> ELSE <<"detectEmergingKeywords", 0>>}
          [] site = "extractArticleContent" ->
                {IF ok THEN <<"summarizeContent", i>> ELSE NextArticle(i, n)}
          [] site = "summarizeContent" -> {NextArticle(i, n)}
          [] site = "detectEmergingKeywords" -> {<<"analyzeOpportunities", 0>>}
          [] site = "analyzeOpportunities" -> {<<"rankOpportunities", 0>>, <<"done", 0>>}
          [] site = "rankOpportunities" -> {<<"done", 0>>}
          [] site = "analyzeContent" -> {<<"generateCombinedPrediction", 0>>}
          [] site = "generateCombinedPrediction" -> {<<"suggestNextActions", 0>>, <<"done", 0>>}
          [] site = "suggestNextActions" -> {<<"done", 0>>}

(* Number of articles of the feed response; a failed request yields [] *)
FeedItems(cs) ==
    IF \E c \in cs : c.status = "ok" THEN (CHOOSE c \in cs : TRUE).items ELSE 0

(* Every call a request can make *)
CallIdentities(o, kws) ==
    IF o = "getTrendsForNiche"
    THEN [site : {"getGoogleTrends"}, index : 1..Len(kws), window : 1..Len(TimeRanges)]
         \cup [site : ArticleSites, index : 1..MaxFeedItems, window : {0}]
         \cup [site : {"getRedditTrends", "getRecentArticles", "detectEmergingKeywords",
                       "analyzeOpportunities", "rankOpportunities"},
               index : {0}, window : {0}]
    ELSE [site : {"analyzeContent", "generateCombinedPrediction", "suggestNextActions"},
          index : {0}, window : {0}]

(* A request with n keywords of which the calls in quiet never respond *)
InitCallsWith(n, quiet) ==
    /\ op \in {"getTrendsForNiche", "predictTrends"}
    /\ keywords = RequestKeywords(n)
    /\ historicalData = <<>>
    /\ recentArticles \in (IF op = "predictTrends" THEN {0, 1} ELSE {0})
    /\ pc = FirstSite(op, recentArticles)
    /\ InitLocals
    /\ variant = "extended"
    /\ InitTrendsLocals
    /\ NoCompetitors
    /\ NoChart
    /\ calls = {}
    /\ silent \in quiet
    /\ article = 0

(* Every external call responds *)
InitCalls == \E n \in 1..MaxTrendKeywords : InitCallsWith(n, {NoCall})

(* One external call of a request with one keyword never responds *)
InitSilentCall == InitCallsWith(1, CallIdentities(op, RequestKeywords(1)))

(* The request reaches a call site and issues its requests *)
LaunchCalls ==
    /\ op \in {"getTrendsForNiche", "predictTrends"} /\ pc # "done"
    /\ CurrentCalls(calls, pc, article) = {}
    /\ calls' = calls \cup CallsOf(pc, keywords, article)
    /\ UNCHANGED <<requestVars, predictVars, trendsVars, competitorVars, chartVars, silent, article,
                   pc, result>>

(* The await of the call site completes and the request goes on *)
ContinueRequest ==
    /\ op \in {"getTrendsForNiche", "predictTrends"} /\ pc # "done"
    /\ LET cs == CurrentCalls(calls, pc, article)
           n  == IF pc = "getRecentArticles" THEN FeedItems(cs) ELSE articles
       IN  /\ cs # {}
           /\ StageSettled(pc, cs)
           /\ articles' = n
           /\ \E nx \in NextSites(pc, cs, article, n) :
                 /\ pc' = nx[1]
                 /\ article' = nx[2]
                 /\ result' = IF nx[1] = "done" THEN [kind |-> "returned"] ELSE result
           /\ IF pc = "getGoogleTrends"
              THEN \E random \in [1..Len(keywords) -> ExtendedRandomSamples] :
                      trendsData' = getGoogleTrends(keywords,
                                        [w \in 1..Len(TimeRanges) |->
                                            [error  |-> WindowRejected(cs, w),
                                             series |-> <<0, 40>>]],
                                        random)
              ELSE UNCHANGED trendsData
    /\ UNCHANGED <<requestVars, predictVars, competitorVars, chartVars, variant, redditData, failures,
                   trendingKeywords, emergingKeywords, aiAnalysis, classification,
                   opportunities, calls, silent>>

(* A pending call gets its response, unless it is the one that never does *)
CallResponds ==
    /\ \E c \in calls, status \in {"ok", "failed"} :
          /\ c.status = "pending"
          /\ [site |-> c.site, index |-> c.index, window |-> c.window] # silent
          /\ \E items \in (IF c.site = "getRecentArticles" /\ status = "ok"
                           THEN 0..MaxFeedItems ELSE {0}) :
                calls' = (calls \ {c}) \cup {[c EXCEPT !.status = status, !.items = items]}
    /\ UNCHANGED <<requestVars, predictVars, trendsVars, competitorVars, chartVars, silent, article,
                   pc, result>>

(* The timeout of a pending call expires: the request is rejected *)
CallTimesOut ==
    /\ \E c \in calls :
          /\ c.status = "pending"
          /\ c.site \in TimeoutSites
          /\ calls' = (calls \ {c}) \cup {[c EXCEPT !.status = "failed"]}
    /\ UNCHANGED <<requestVars, predictVars, trendsVars, competitorVars, chartVars, silent, article,
                   pc, result>>

NextCalls == LaunchCalls \/ ContinueRequest \/ CallResponds \/ CallTimesOut

SpecCalls == InitCalls /\ [][NextCalls]_vars

(* The event loop runs a continuation that is ready, a remote that answers  *)
(* does so eventually, and a timeout that was set expires                   *)
SpecCallsFair == InitSilentCall /\ [][NextCalls]_vars /\ WF_vars(NextCalls)

CallsDone == op \in {"getTrendsForNiche", "predictTrends"} /\ pc = "done" /\ calls # {}

(* C22: when a single external call (a search-interest fetch, the Reddit    *)
(* or feed fetch, an article scrape, a generation or a classification       *)
(* request) never responds, the request still eventually returns            *)
C22_SilentCallStillReturns == <>CallsDone

FanOutReturned == op = "getTrendsForNiche" /\ pc # "getGoogleTrends"

PendingFetches == {c \in calls : c.site = "getGoogleTrends" /\ c.status = "pending"}

(* C23: every launched per-keyword, per-window fetch has completed before   *)
(* getGoogleTrends returns, so no fetch is in flight when the request goes  *)
(* on to the later stages and to aggregation, also when another fetch of    *)
(* the same window failed                                                   *)
C23_NoFetchInFlightAfterFanOut == FanOutReturned => PendingFetches = {}

(* The series of fetch c is in the data getGoogleTrends returned *)
SeriesHandedOver(td, c) ==
    /\ td.format = "windows"
    /\ \E i \in 1..Len(td.windows) :
          /\ td.windows[i].timeRange = TimeRanges[c.window]
          /\ \E j \in 1..Len(td.windows[i].keywordData) :
                td.windows[i].keywordData[j].keyword = keywords[c.index]

(* C24: a failed fetch affects only its own (keyword, window) pair: when    *)
(* getGoogleTrends returns, every series that was fetched successfully is   *)
(* in the data it hands to aggregation                                      *)
C24_SuccessfulSeriesKept ==
    [][(op = "getTrendsForNiche" /\ pc = "getGoogleTrends" /\ pc' # pc) =>
          \A c \in calls :
              (c.site = "getGoogleTrends" /\ c.status = "ok") => SeriesHandedOver(trendsData', c)]_vars

GenerationInFlight == {c \in calls : c.site \in GenerationSites /\ c.status = "pending"}

(* C25: within one getTrendsForNiche or predictTrends request at most one   *)
(* generation or classification call is in flight at any time, the          *)
(* summarization calls of the articles included                             *)
C25_OneGenerationAtATime == Cardinality(GenerationInFlight) <= 1

(* The summary of the second article is in flight after the summary of the *)
(* first article was received                                               *)
C25_Witness ==
    /\ op = "getTrendsForNiche"
    /\ \E c \in GenerationInFlight : c.site = "summarizeContent" /\ c.index = 2
    /\ \E c \in calls : c.site = "summarizeContent" /\ c.index = 1 /\ c.status = "ok"

-----------------------------------------------------------------------------
(* processTrendsData alone, on the per-window format of the extended        *)
(* TrendsService                                                            *)

(* First and last value of the series of one keyword in one window: growth *)
(* of 100, 150 and 500 percent, and a decline                               *)
WindowSeriesSamples == { <<10, 20>>, <<20, 50>>, <<0, 5>>, <<30, 10>> }

(* The windows whose fetches succeeded, in the order of timeRanges *)
WindowSelections == { <<1, 2, 3>>, <<1, 2>>, <<1, 3>>, <<2, 3>>, <<1>>, <<2>>, <<3>>, <<>> }

WindowsData(kws, selection, series) ==
    [i \in 1..Len(selection) |->
        [timeRange   |-> TimeRanges[selection[i]],
         keywordData |-> [k \in 1..Len(kws) |->
                            [keyword |-> kws[k],
                             first   |-> series[selection[i]][k][1],
                             last    |-> series[selection[i]][k][2]]]]]

InitAggregate ==
    /\ op = "processTrendsData"
    /\ pc = "processTrendsData"
    /\ keywords = RequestKeywords(MaxTrendKeywords)
    /\ historicalData = <<>>
    /\ recentArticles = 0
    /\ InitLocals
    /\ InitEntryLocals
    /\ variant = "extended"
    /\ redditData = 0
    /\ articles = 0
    /\ failures = {}
    /\ trendingKeywords = <<>>
    /\ emergingKeywords = 0
    /\ aiAnalysis = NoResponse
    /\ classification = NotCalled
    /\ opportunities = <<>>
    /\ \E selection \in WindowSelections :
          \E series \in [1..Len(TimeRanges) ->
                            [1..Len(keywords) ->
                                WindowSeriesSamples]] :
             /\ \A w \in 1..Len(TimeRanges) :
                   (\A i \in 1..Len(selection) : selection[i] # w) =>
                       \A k \in 1..Len(keywords) : series[w][k] = <<10, 20>>
             /\ trendsData = [format |-> "windows",
                              windows |-> WindowsData(keywords, selection, series)]

ProcessTrendsDataCall ==
    /\ op = "processTrendsData" /\ pc = "processTrendsData"
    /\ trendingKeywords' = processTrendsData(variant, trendsData, keywords)
    /\ pc' = "done"
    /\ UNCHANGED <<requestVars, entryVars, predictVars, variant, trendsData, redditData,
                   articles, failures, emergingKeywords, aiAnalysis, opportunities, result,
                   classification>>

NextAggregate == ProcessTrendsDataCall

SpecAggregate == InitAggregate /\ [][NextAggregate]_vars

AggregateDone == op = "processTrendsData" /\ pc = "done"

(* Growths of keyword k in the windows where its last value exceeds its    *)
(* first, in the order of the windows, each with its time range             *)
RECURSIVE PositiveGrowths(_, _)
PositiveGrowths(windows, k) ==
    IF windows = <<>> THEN <<>>
    ELSE LET item == Head(windows).keywordData[k]
         IN  (IF item.last > item.first
              THEN << [timeRange |-> Head(windows).timeRange,
                       growth    |-> RNorm(<<(item.last - item.first) * 100,
                                             MathMax(1, item.first)>>)] >>
              ELSE <<>>) \o PositiveGrowths(Tail(windows), k)

ClaimedWeight(timeRange) ==
    IF timeRange = "today 1-w" THEN <<6, 10>>
    ELSE IF timeRange = "today 1-m" THEN <<3, 10>>
    ELSE <<1, 10>>

(* The first positive growth unweighted, every later one merged as         *)
(* existing * (1 - w) + growth * w                                          *)
RECURSIVE ClaimedGrowth(_)
ClaimedGrowth(p) ==
    IF Len(p) = 1 THEN p[1].growth
    ELSE LET existing == ClaimedGrowth(SubSeq(p, 1, Len(p) - 1))
             w == ClaimedWeight(p[Len(p)].timeRange)
         IN  RAdd(RMul(existing, RSub(RInt(1), w)), RMul(p[Len(p)].growth, w))

(* C26: the windows are folded in the order 3-month, 1-month, 1-week; the  *)
(* first window in which a keyword grows sets its growth unweighted, every *)
(* later window updates it to existing * (1 - w) + growth * w with w = 0.6 *)
(* for 1-week, 0.3 for 1-month and 0.1 for 3-month, so a keyword that      *)
(* grows in one window only keeps that window's growth                     *)
C26_WindowsFoldedOldestFirst ==
    AggregateDone =>
        \A k \in 1..Len(keywords) :
            LET p == PositiveGrowths(trendsData.windows, k)
                entries == {i \in 1..Len(trendingKeywords) :
                               trendingKeywords[i].keyword = keywords[k]}
            IN  IF p = <<>> THEN entries = {}
                ELSE /\ Cardinality(entries) = 1
                     /\ \A i \in entries : trendingKeywords[i].growth = ClaimedGrowth(p)

(* Keyword 1 grows by 100, 150 and 500 percent in the three windows, and   *)
(* keyword 2 grows in the 1-week window only                                *)
C26_Witness ==
    /\ AggregateDone
    /\ Len(trendsData.windows) = 3
    /\ PositiveGrowths(trendsData.windows, 1) =
          << [timeRange |-> "today 3-m", growth |-> <<100, 1>>],
             [timeRange |-> "today 1-m", growth |-> <<150, 1>>],
             [timeRange |-> "today 1-w", growth |-> <<500, 1>>] >>
    /\ PositiveGrowths(trendsData.windows, 2) =
          << [timeRange |-> "today 1-w", growth |-> <<150, 1>>] >>
    /\ trendingKeywords = << [keyword |-> 1, growth |-> <<346, 1>>],
                             [keyword |-> 2, growth |-> <<150, 1>>] >>

(* C27: every growth percentage divides by max(1, first value), in the     *)
(* single-window and simulated format as in the multi-window format, so a  *)
(* first value of 0 never yields an infinite growth                         *)
C27_GrowthNeverInfinite ==
    \A i \in 1..Len(trendingKeywords) : trendingKeywords[i].growth[2] # 0

(* Mean of the squared deviations from the mean *)
ClaimedVariance(values) ==
    LET n    == Len(values)
        mean == RNorm(<<SumSeq(values), n>>)
        sq   == [i \in 1..n |-> RMul(RSub(RInt(values[i]), mean), RSub(RInt(values[i]), mean))]
        sum[i \in 0..n] == IF i = 0 THEN RInt(0) ELSE RAdd(sum[i - 1], sq[i])
    IN  RMul(sum[n], <<1, n>>)

(* Sum over the forecasts of variance / 10 *)
ClaimedPenalty(forecasts) ==
    LET n == Len(forecasts)
        sum[i \in 0..n] ==
            IF i = 0 THEN RInt(0)
            ELSE RAdd(sum[i - 1], RMul(ClaimedVariance(forecasts[i]), <<1, 10>>))
    IN  sum[n]

ClaimedTotal(forecasts) ==
    LET n == Len(forecasts)
        sum[i \in 0..n] == IF i = 0 THEN 0 ELSE sum[i - 1] + Len(forecasts[i])
    IN  sum[n]

ClaimedConfidence(forecasts) ==
    LET base == IF 5 * ClaimedTotal(forecasts) < 70 THEN 5 * ClaimedTotal(forecasts) ELSE 70
        raw  == RSub(RInt(base), ClaimedPenalty(forecasts))
    IN  IF RLess(raw, RInt(30)) THEN RInt(30)
        ELSE IF RLess(RInt(95), raw) THEN RInt(95)
        ELSE raw

(* C28: the confidence score of a result that is not the fallback is       *)
(* clamp(base - penalty, 30, 95) with base = min(70, 5 * number of         *)
(* forecast values) and penalty = the sum of variance(values) / 10 over    *)
(* the regression forecasts, as they were before synthesis                  *)
C28_ConfidenceFormula ==
    (PredictDone /\ ~threw /\ result.kind = "value") =>
        result.confidenceScore = ClaimedConfidence(keywordPredictions)

(* Three keywords whose forecasts vary: the penalty lowers the score to a  *)
(* value strictly between the floor and the base                            *)
C28_Witness ==
    /\ PredictDone /\ ~threw /\ result.kind = "value"
    /\ Len(keywordPredictions) = 3
    /\ ClaimedPenalty(keywordPredictions) # RInt(0)
    /\ RLess(RInt(30), result.confidenceScore)
    /\ RLess(result.confidenceScore, RInt(5 * ClaimedTotal(keywordPredictions)))

(* C29: suggestNextActions leaves the predictions list it is given         *)
(* unmodified and in the same order, so the predictions of the result are  *)
(* in the order synthesis produced them                                     *)
C29_SuggestLeavesPredictions ==
    [][(op = "predictTrends" /\ pc = "suggestNextActions") =>
          /\ combinedPrediction' = combinedPrediction
          /\ result'.predictions = combinedPrediction]_vars

-----------------------------------------------------------------------------
(* TrendsPredictionChart: the effect that fetches the demo prediction       *)

MaxPropsChanges == 3

(* response.data of the request made for the props value v *)
ResponseData(v) == [request |-> v]

(* The chart rows, keyed by the keywords of the predictions of a response: *)
(* 12 past weeks, the current point, 6 predicted weeks                      *)
mapDataForChart(data) == [request |-> data.request, points |-> 12 + 1 + 6]

(* The effect run for a props value: it fetches when niche is set and      *)
(* keywords is not empty                                                    *)
EffectRequest(fetchable) == IF fetchable THEN "pending" ELSE "none"

(* After the first render and its effect; useState(true) for loading *)
InitChart ==
    /\ op = "TrendsPredictionChart"
    /\ pc = "mounted"
    /\ keywords = <<>>
    /\ historicalData = <<>>
    /\ recentArticles = 0
    /\ InitLocals
    /\ variant = "extended"
    /\ InitTrendsLocals
    /\ NoCompetitors
    /\ NoCalls
    /\ \E fetchable \in BOOLEAN : requests = <<EffectRequest(fetchable)>>
    /\ loading = TRUE
    /\ predictionData = NoData
    /\ chartData = NoData

(* The parent renders the component with other niche or keywords: the      *)
(* effect runs again, and nothing cancels the requests in flight            *)
PropsChange ==
    /\ op = "TrendsPredictionChart"
    /\ Len(requests) < 1 + MaxPropsChanges
    /\ \E fetchable \in BOOLEAN :
          /\ requests' = Append(requests, EffectRequest(fetchable))
          /\ loading' = IF fetchable THEN TRUE ELSE loading
    /\ UNCHANGED <<requestVars, predictVars, trendsVars, competitorVars, callVars, pc,
                   predictionData, chartData, result>>

(* The request made for props value v settles: the continuation of         *)
(* fetchPredictions sets the state, its finally block clears loading       *)
ResponseArrives ==
    /\ op = "TrendsPredictionChart"
    /\ \E v \in 1..Len(requests), ok \in BOOLEAN :
          /\ requests[v] = "pending"
          /\ requests' = [requests EXCEPT ![v] = IF ok THEN "ok" ELSE "failed"]
          /\ predictionData' = IF ok THEN ResponseData(v) ELSE predictionData
          /\ chartData' = IF ok THEN mapDataForChart(ResponseData(v)) ELSE chartData
          /\ loading' = FALSE
    /\ UNCHANGED <<requestVars, predictVars, trendsVars, competitorVars, callVars, pc, result>>

NextChart == PropsChange \/ ResponseArrives

SpecChart == InitChart /\ [][NextChart]_vars

RequestInFlight == \E v \in 1..Len(requests) : requests[v] = "pending"

(* C30: when the props change while an earlier request is in flight, then  *)
(* once all requests have completed the displayed predictionData and       *)
(* chartData are those of the response to the most recent props, whatever  *)
(* the order of arrival, and loading is false only when no request is in   *)
(* flight                                                                   *)
C30_LatestPropsDisplayed ==
    op = "TrendsPredictionChart" =>
        /\ (~RequestInFlight /\ requests[Len(requests)] = "ok") =>
              /\ predictionData = ResponseData(Len(requests))
              /\ chartData = mapDataForChart(ResponseData(Len(requests)))
        /\ ~loading => ~RequestInFlight

-----------------------------------------------------------------------------
(* All entry points together *)

Init ==
    \/ InitPredict \/ InitForecast \/ InitRamp \/ InitTrends \/ InitExtract \/ InitRank
    \/ InitCompetitors \/ InitCalls \/ InitSilentCall \/ InitAggregate \/ InitChart

Next ==
    \/ NextPredict \/ NextTrends \/ NextExtract \/ NextRank
    \/ NextCompetitors \/ NextCalls \/ NextAggregate \/ NextChart

Spec == Init /\ [][Next]_vars

====
